---- MODULE Spec2Model ----
(***************************************************************************)
(* Model of the Bounso e-mail verifier (src/app/verifier.py).              *)
(*                                                                         *)
(* Strings are tuples of one-character strings, so that the regular        *)
(* expression, str.strip, str.split, str.rstrip and the substring tests of *)
(* the provider classifier are computed character by character.            *)
(* Python's None is the integer None (-1) where it stands for a status     *)
(* code or an elapsed time.  Elapsed times are whole milliseconds; scores  *)
(* are kept in hundredths (the code rounds them to two decimals), see      *)
(* behavioral_score.                                                       *)
(***************************************************************************)
EXTENDS Integers, Sequences, FiniteSets, TLC

VARIABLES
    now,        \* time.time(), in seconds
    store,      \* mx_cache._store: domain -> (ts, records)
    tasks,      \* the running calls of verify_email, by task number
    emails,     \* verify_bulk_emails: the argument, as passed by the caller
    valid,      \* verify_bulk_emails: `emails` after line 369
    results,    \* verify_bulk_emails: `results`, in completion order
    output,     \* the value returned by the last call
    max_workers,\* verify_bulk_emails: the size of the thread pool
    phase,      \* "idle" | "bulk" | "done"
    lastSet,    \* history: domain -> time of the last completed MXCache.set
    net,        \* what the network of this run can answer (fixed by Init)
    scIn,       \* scorer harness: the arguments of a replayed scoring
    scOut       \* scorer harness: what analyze_timing/behavioral_score gave

vars == <<now, store, tasks, emails, valid, results, output, max_workers,
          phase, lastSet, net, scIn, scOut>>

(***************************************************************************)
(* Bounds of the model.                                                    *)
(***************************************************************************)
MaxTicks == 3        \* the clock advances at most this many times
TickLen == 1800      \* seconds per advance of the clock
MaxBatch == 2        \* longest list handed to verify_bulk_emails
MaxWorkers == 2      \* max_workers of the thread pool in the model
MaxReplays == 2      \* times one probe sequence is scored again

(***************************************************************************)
(* Program constants.                                                      *)
(***************************************************************************)
None == -1
MX_CACHE_TTL == 3600
ProbeThreshold == 60

(***************************************************************************)
(* Characters and strings.                                                 *)
(***************************************************************************)
LowerLetters == {"a", "b", "c", "d", "e", "g", "h", "k", "l", "m", "o", "p",
                 "s", "t", "u", "x"}
UpperLetters == {"O", "A"}
Letters == LowerLetters \cup UpperLetters
Digits == {"0", "1"}
Whitespace == {" ", "\n", "\t"}

\* [A-Za-z0-9._%+-]
LocalChars == Letters \cup Digits \cup {".", "_", "%", "+", "-"}
\* [A-Za-z0-9.-]
DomainChars == Letters \cup Digits \cup {".", "-"}

AllIn(s, lo, hi, S) == \A k \in lo..hi : s[k] \in S

\* str.lower() on the characters of the model
LowerChar(c) == IF c = "O" THEN "o" ELSE IF c = "A" THEN "a" ELSE c
Lower(s) == [k \in 1..Len(s) |-> LowerChar(s[k])]

\* `sub in s`
Contains(sub, s) ==
    \E k \in 1..(Len(s) - Len(sub) + 1) : SubSeq(s, k, k + Len(sub) - 1) = sub

RECURSIVE LStrip(_)
LStrip(s) == IF s # <<>> /\ Head(s) \in Whitespace THEN LStrip(Tail(s)) ELSE s

RECURSIVE RStrip(_)
RStrip(s) ==
    IF s # <<>> /\ s[Len(s)] \in Whitespace
    THEN RStrip(SubSeq(s, 1, Len(s) - 1)) ELSE s

\* str.rstrip('.')
RECURSIVE RStripDot(_)
RStripDot(s) ==
    IF s # <<>> /\ s[Len(s)] = "."
    THEN RStripDot(SubSeq(s, 1, Len(s) - 1)) ELSE s

\* index of the first "@" of s, 0 when there is none
RECURSIVE FirstAt(_, _)
FirstAt(s, k) ==
    IF k > Len(s) THEN 0 ELSE IF s[k] = "@" THEN k ELSE FirstAt(s, k + 1)

\* email.split("@", 1)[1]; an IndexError when there is no "@"
DomainOf(s) == SubSeq(s, FirstAt(s, 1) + 1, Len(s))

\* EMAIL_REGEX.match(s): ^[A-Za-z0-9._%+-]+@[A-Za-z0-9.-]+\.[A-Za-z]{2,}$
\* (Python's $ also matches just before one final newline)
EMAIL_REGEX_match(s) ==
    \E n \in {Len(s)} \cup (IF s # <<>> /\ s[Len(s)] = "\n" THEN {Len(s) - 1} ELSE {}) :
      \E i \in 2..n : \E j \in (i + 2)..(n - 2) :
        /\ AllIn(s, 1, i - 1, LocalChars)
        /\ s[i] = "@"
        /\ AllIn(s, i + 1, j - 1, DomainChars)
        /\ s[j] = "."
        /\ AllIn(s, j + 1, n, Letters)

normalize_email(email) == RStrip(LStrip(email))

\* detect_mx_provider
detect_mx_provider(mx_host) ==
    LET h == Lower(mx_host) IN
    IF Contains(<<"o","u","t","l","o","o","k">>, h)
       \/ Contains(<<"p","r","o","t","e","c","t","i","o","n">>, h)
      THEN "microsoft365"
    ELSE IF Contains(<<"g","o","o","g","l","e",".","c","o","m">>, h)
            \/ Contains(<<"a","s","p","m","x">>, h)
      THEN "google"
    ELSE IF Contains(<<"p","p","h","o","s","t","e","d">>, h)
            \/ Contains(<<"p","r","o","o","f","p","o","i","n","t">>, h)
      THEN "proofpoint"
    ELSE IF Contains(<<"m","i","m","e","c","a","s","t">>, h) THEN "mimecast"
    ELSE IF Contains(<<"b","a","r","r","a","c","u","d","a">>, h) THEN "barracuda"
    ELSE "unknown"

(***************************************************************************)
(* Signal analysis and scoring.                                            *)
(* A probe is [addr, code, t]; addr is the role of the address probed.     *)
(* Confidence is in hundredths (0.25 is 25), and so is the score (23.33 is *)
(* 2333): both are decimals with two places in the code.                   *)
(***************************************************************************)
Abs(x) == IF x < 0 THEN 0 - x ELSE x
Min(a, b) == IF a < b THEN a ELSE b
Max(a, b) == IF a > b THEN a ELSE b

RECURSIVE SeqSum(_)
SeqSum(s) == IF s = <<>> THEN 0 ELSE Head(s) + SeqSum(Tail(s))

SeqMax(s) == CHOOSE x \in {s[k] : k \in 1..Len(s)} : \A k \in 1..Len(s) : s[k] <= x
SeqMin(s) == CHOOSE x \in {s[k] : k \in 1..Len(s)} : \A k \in 1..Len(s) : x <= s[k]

IsNumber(x) == x \in Int

\* mutant of Or0: a missing time is read off the clock
Or0Clock(x) == IF x = None THEN now ELSE x

\* `x or 0`
Or0(x) == IF x = None THEN 0 ELSE x

\* analyze_timing(seq) -> (conf, delta, entropy, avg_latency)
analyze_timing(seq) ==
    LET times == SelectSeq([k \in 1..Len(seq) |-> seq[k].t], LAMBDA t : t # None)
        codes == {seq[k].code : k \in {i \in 1..Len(seq) : seq[i].code # None}}
    IN  IF times = <<>>
        THEN [conf |-> 0, delta |-> 0, entropy |-> 1, avg |-> None]
        ELSE LET delta == SeqMax(times) - SeqMin(times)
                 entropy == IF codes # {} THEN Cardinality(codes) ELSE 1
                 c1 == IF delta > 120 THEN 25
                       ELSE IF delta > 80 THEN 18
                       ELSE IF delta > 40 THEN 12
                       ELSE IF delta > 10 THEN 6
                       ELSE 0
                 c2 == IF entropy > 1 THEN c1 + 5 ELSE c1
             IN  [conf |-> Min(c2, 35), delta |-> delta, entropy |-> entropy,
                  avg |-> SeqSum(times) \div Len(times)]

GenericAccept == {"microsoft365", "proofpoint", "mimecast", "barracuda"}
AcceptCodes == {250, 450, 451, 452}

PatternValid(code) ==
    CASE code = 250 -> "smtp_250_valid"
      [] code = 450 -> "smtp_450_valid"
      [] code = 451 -> "smtp_451_valid"
      [] OTHER -> "smtp_452_valid"

\* lines 230-235: the status of a score
StatusOf(score) ==
    IF score >= 8000 THEN "valid"
    ELSE IF score >= 5500 THEN "risky"
    ELSE "invalid"

\* mutant of ProviderRule: the 550 override is a floor under the timing score
\* instead of replacing it
ProviderRuleFloor(score, pattern, provider, real_code) ==
    IF provider \in GenericAccept
    THEN IF real_code \in AcceptCodes THEN <<9900, PatternValid(real_code)>>
         ELSE IF real_code = 550 THEN <<Max(score, 1000), "smtp_550_invalid">>
         ELSE <<score, pattern>>
    ELSE IF provider = "google"
    THEN IF pattern = "strong_delay" THEN <<Max(score, 9000), pattern>>
         ELSE IF pattern = "flat_pattern" THEN <<Min(score, 4000), pattern>>
         ELSE <<score, pattern>>
    ELSE <<score, pattern>>

\* lines 219-228: the provider rules, giving <<score, pattern>>
ProviderRule(score, pattern, provider, real_code) ==
    IF provider \in GenericAccept
    THEN IF real_code \in AcceptCodes THEN <<9900, PatternValid(real_code)>>
         ELSE IF real_code = 550 THEN <<1000, "smtp_550_invalid">>
         ELSE <<score, pattern>>
    ELSE IF provider = "google"
    THEN IF pattern = "strong_delay" THEN <<Max(score, 9000), pattern>>
         ELSE IF pattern = "flat_pattern" THEN <<Min(score, 4000), pattern>>
         ELSE <<score, pattern>>
    ELSE <<score, pattern>>

\* lines 211-217: the composite, in hundredths.  base * 100 is N / 21 with
\* N as below; N / 21 is never half-way between two integers, so rounding to
\* the nearest hundredth is (2N + 21) \div 42.
BaseScore(gap_real2, gap_fakes, confidence, entropy) ==
    LET N == 525 * Min(gap_real2, 160)
             + 420 * (100 - Min(gap_fakes, 100))
             + 1200 * Min(confidence, 35)
             + 7000 * Min(entropy, 3)
    IN  Min(9900, (2 * N + 21) \div 42)

\* behavioral_score; gap_real2 is twice gap_real_vs_avg_fake
behavioral_score(fake1_t, fake2_t, real_t, confidence, entropy, provider, real_code) ==
    IF ~(IsNumber(Or0(fake1_t)) /\ IsNumber(Or0(real_t)))
    THEN [Pattern |-> "no_data", Score |-> 0, Status |-> "invalid",
          Deliverable |-> FALSE]
    ELSE
    LET f2 == IF fake2_t = None THEN fake1_t ELSE fake2_t
        avg_fake2 == Or0(fake1_t) + Or0(f2)
        gap_fakes == Abs(Or0(fake1_t) - Or0(f2))
        gap_real2 == Abs(2 * Or0(real_t) - avg_fake2)
        pattern0 ==
            IF gap_fakes < 20 /\ gap_real2 < 40 THEN "flat_pattern"
            ELSE IF gap_real2 > 120 /\ 2 * Or0(real_t) > avg_fake2 THEN "strong_delay"
            ELSE IF gap_fakes < 25 /\ 40 <= gap_real2 /\ gap_real2 <= 100 THEN "semi_flat"
            ELSE "unclear"
        ruled == ProviderRule(BaseScore(gap_real2, gap_fakes, confidence, entropy),
                              pattern0, provider, real_code)
    IN  [Pattern |-> ruled[2], Score |-> ruled[1], Status |-> StatusOf(ruled[1]),
         Deliverable |-> ruled[1] >= 8000]

(***************************************************************************)
(* The inputs of the model: addresses as callers pass them, and what the   *)
(* resolver and the mail server can answer.                                *)
(***************************************************************************)
AddrA == <<"a", "@", "x", ".", "c", "c">>
AddrB == <<"b", "@", "x", ".", "c", "c">>
AddrBad == <<"b", "a", "d">>
AddrSp == <<" ", "a", "@", "x", ".", "c", "c">>

\* str(r.exchange) of the MX records dnspython returns: absolute names
HostMS == <<"O", "u", "t", "l", "o", "o", "k", ".", "c", "o", "m", ".">>
HostGoogle == <<"a", "s", "p", "m", "x", ".", "c", "c", ".">>
HostPP == <<"p", "p", "h", "o", "s", "t", "e", "d", ".", "c", "c", ".">>
HostOwn == <<"m", "x", ".", "x", ".", "c", "c", ".">>

Rdata(pref, host) == [preference |-> pref, exchange |-> host]

\* Resolver.resolve returns a non-empty answer or raises: an empty answer
\* is the exception NoAnswer (raise_on_no_answer is left at its default).
DnsErrors == {"NXDOMAIN", "NoAnswer", "Timeout"}

NoneStr == "None"
NoItem == [ts |-> None, records |-> <<>>]
NoProbe == [addr |-> NoneStr, code |-> None, t |-> None]

\* the single-call runs: every provider, every code and timing class
RichNet ==
    [addrs |-> {AddrA, AddrBad, AddrSp},
     answers |-> {<<Rdata(10, HostMS)>>, <<Rdata(10, HostGoogle)>>,
                  <<Rdata(10, HostPP)>>, <<Rdata(10, HostOwn)>>,
                  <<Rdata(20, HostOwn), Rdata(10, HostGoogle)>>},
     errors |-> DnsErrors,
     connects |-> BOOLEAN,
     handshakes |-> {"ok", "helo_failed", "mail_failed"},
     codes |-> {250, 550, None},
     decoyTimes |-> {10},
     times |-> {10, 100}]

\* the concurrent runs: few answers, so that interleavings can be explored
LeanNet ==
    [addrs |-> {AddrA, AddrB, AddrBad},
     answers |-> {<<Rdata(10, HostOwn)>>},
     errors |-> {"Timeout"},
     connects |-> BOOLEAN,
     handshakes |-> {"ok"},
     codes |-> {250},
     decoyTimes |-> {10},
     times |-> {100}]

(***************************************************************************)
(* verify_email: one task per call.                                        *)
(***************************************************************************)
\* lines 282-293
InitialResult(email) ==
    [email |-> email,
     Fake1_Code |-> None, Fake1_Time |-> None,
     Real_Code |-> None, Real_Time |-> None,
     Fake2_Code |-> None, Fake2_Time |-> None,
     Timing_Delta |-> None, Entropy |-> None,
     Avg_Latency |-> None, Confidence |-> None,
     Provider |-> NoneStr, Pattern |-> NoneStr,
     Status |-> "invalid", Deliverable |-> FALSE,
     Score |-> 0, Reason |-> NoneStr,
     MX |-> <<>>]

\* what a run of verify_email did, kept beside the task for the properties
NoHistory ==
    [dns |-> 0, cacheOps |-> 0, sessions |-> 0, rcpts |-> 0,
     handshake |-> NoneStr, seq |-> <<>>, answers |-> <<>>, age |-> None,
     seenSet |-> None, fresh |-> FALSE, stale |-> FALSE, hit |-> FALSE]

NewTask(arg, pc) ==
    [pc |-> pc, arg |-> arg, item |-> NoItem, mx |-> <<>>,
     result |-> InitialResult(normalize_email(arg)), h |-> NoHistory]

IdleTask == NewTask(<<>>, "none")

TaskIds == 1..MaxBatch

\* dict assignment d[k] = v
Put(d, k, v) == [x \in DOMAIN d \cup {k} |-> IF x = k THEN v ELSE d[x]]
\* dict.pop(k, None)
Pop(d, k) == [x \in DOMAIN d \ {k} |-> d[x]]

SetTask(t, r) == tasks' = [tasks EXCEPT ![t] = r]

\* mutant of SyntaxOk: only an empty address is refused
SyntaxUnchecked(email) == email # <<>>

\* line 295: the syntax check of verify_email, on the stripped address
SyntaxOk(email) == EMAIL_REGEX_match(email)

\* lines 280-297: normalise, build the default result, check the syntax
VerifySyntax(t) ==
    /\ tasks[t].pc = "start"
    /\ LET T == tasks[t]
           email == normalize_email(T.arg)
       IN  IF ~SyntaxOk(email)
           THEN SetTask(t, [T EXCEPT !.pc = "ret", !.result.Reason = "bad_syntax"])
           ELSE SetTask(t, [T EXCEPT !.pc = "get"])
    /\ UNCHANGED <<now, store, emails, valid, results, output, max_workers, phase,
                   lastSet, net, scIn, scOut>>

\* lines 303-308 (and 313): what verify_email does with the list resolve_mx returned
GotMx(T, mx_records) ==
    IF mx_records = <<>>
    THEN [T EXCEPT !.pc = "ret", !.mx = mx_records, !.result.MX = mx_records,
                   !.result.Reason = "no_mx"]
    ELSE [T EXCEPT !.pc = "probe", !.mx = mx_records, !.result.MX = mx_records,
                   !.result.Provider = detect_mx_provider(mx_records[1])]

\* history: a set for the domain completed at time `set` is within its TTL at
\* `time`, or past it
WithinTtl(set, time) == set # None /\ time - set < MX_CACHE_TTL
PastTtl(set, time) == set # None /\ time - set > MX_CACHE_TTL

\* lines 301-302, 89, 52-54: resolve_mx calls MXCache.get, which reads the store.
\* h.age is the age of the item at the expiry test, h.seenSet is the time of the last set completed before this call, h.stale
\* whether its TTL had elapsed when the call was made, and h.fresh whether it
\* was still within its TTL when the call decided between cache and query.
CacheGet(t) ==
    /\ tasks[t].pc = "get"
    /\ LET T == tasks[t]
           domain == DomainOf(T.result.email)
           item == IF domain \in DOMAIN store THEN store[domain] ELSE NoItem
           seen == IF domain \in DOMAIN lastSet THEN lastSet[domain] ELSE None
           H == [T.h EXCEPT !.cacheOps = @ + 1, !.stale = PastTtl(seen, now)]
       IN  IF item = NoItem
           THEN SetTask(t, [T EXCEPT !.pc = "query",
                                     !.h = [H EXCEPT !.fresh = WithinTtl(seen, now)]])
           ELSE SetTask(t, [T EXCEPT !.pc = "check", !.item = item,
                                     !.h = [H EXCEPT !.seenSet = seen]])
    /\ UNCHANGED <<now, store, emails, valid, results, output, max_workers, phase,
                   lastSet, net, scIn, scOut>>

\* line 56: the expiry test of MXCache.get
Expired(ts, time) == time - ts > MX_CACHE_TTL

\* lines 55-59, 90-91: the expiry test on the item read, the eviction, and
\* resolve_mx's `if cached`
CacheCheck(t) ==
    /\ tasks[t].pc = "check"
    /\ LET T == tasks[t]
           domain == DomainOf(T.result.email)
           H == [T.h EXCEPT !.fresh = WithinTtl(T.h.seenSet, now), !.seenSet = None,
                            !.age = now - T.item.ts]
       IN  IF Expired(T.item.ts, now)
           THEN /\ store' = Pop(store, domain)
                /\ SetTask(t, [T EXCEPT !.pc = "query", !.item = NoItem,
                                        !.h = [H EXCEPT !.cacheOps = @ + 1]])
           ELSE /\ store' = store
                /\ IF T.item.records # <<>>
                   THEN SetTask(t, [GotMx(T, T.item.records) EXCEPT
                                      !.item = NoItem, !.h = [H EXCEPT !.hit = TRUE]])
                   ELSE SetTask(t, [T EXCEPT !.pc = "query", !.item = NoItem, !.h = H])
    /\ UNCHANGED <<now, emails, valid, results, output, max_workers, phase,
                   lastSet, net, scIn, scOut>>

\* line 310: f"mx_error:{e}", by the exception raised
MxError(e) ==
    CASE e = "NXDOMAIN" -> "mx_error:The DNS query name does not exist"
      [] e = "NoAnswer" -> "mx_error:The DNS response does not contain an answer"
      [] OTHER -> "mx_error:The DNS operation timed out"

\* line 93
MxHosts(answers) == [k \in 1..Len(answers) |-> RStripDot(answers[k].exchange)]

\* lines 92-93, 309-311: the DNS query, answered or failing
DnsQuery(t) ==
    /\ tasks[t].pc = "query"
    /\ LET T == [tasks[t] EXCEPT !.h.dns = @ + 1]
       IN  \/ \E answers \in net.answers :
                SetTask(t, [T EXCEPT !.pc = "set", !.mx = MxHosts(answers),
                                     !.h.answers = answers])
           \/ \E e \in net.errors :
                SetTask(t, [T EXCEPT !.pc = "ret", !.result.Reason = MxError(e)])
    /\ UNCHANGED <<now, store, emails, valid, results, output, max_workers, phase,
                   lastSet, net, scIn, scOut>>

\* lines 94-95, 61-62: MXCache.set, then the return into verify_email
CacheSet(t) ==
    /\ tasks[t].pc = "set"
    /\ LET T == tasks[t]
           domain == DomainOf(T.result.email)
       IN  /\ store' = Put(store, domain, [ts |-> now, records |-> T.mx])
           /\ lastSet' = Put(lastSet, domain, now)
           /\ SetTask(t, [GotMx(T, T.mx) EXCEPT !.h.cacheOps = @ + 1])
    /\ UNCHANGED <<now, emails, valid, results, output, max_workers, phase, net,
                   scIn, scOut>>

(***************************************************************************)
(* The probe stage.  A session belongs to the task that opened it, so a    *)
(* whole probe function is one step; what the server answered is chosen    *)
(* from net.                                                               *)
(***************************************************************************)
Probe(addr, code, t) == [addr |-> addr, code |-> code, t |-> t]

\* lines 139-142
do_fake2(adaptive, code2, t1, t2) ==
    ~(adaptive /\ code2 \in AcceptCodes /\ Abs(t2 - t1) > ProbeThreshold)

\* smtp_multi_probe: the set of its possible runs.  connect raising is the
\* only way into the outer except (160-161); helo and mail failures are
\* passed over (108-115); an rcpt that raises leaves its code None and its
\* time measured (120-125).
smtp_multi_probe(adaptive) ==
    LET blocked ==
          IF FALSE \in net.connects
          THEN {[seq |-> <<Probe("__connect__", None, None)>>, sessions |-> 1,
                 rcpts |-> 0, handshake |-> NoneStr]}
          ELSE {}
        firstTwo ==
          IF TRUE \in net.connects
          THEN net.handshakes \X net.codes \X net.decoyTimes \X net.codes \X net.times
          ELSE {}
        short ==
          {[seq |-> <<Probe("decoy1", x[2], x[3]), Probe("real", x[4], x[5])>>,
            sessions |-> 1, rcpts |-> 2, handshake |-> x[1]] :
             x \in {y \in firstTwo : ~do_fake2(adaptive, y[4], y[3], y[5])}}
        long ==
          {[seq |-> <<Probe("decoy1", x[1][2], x[1][3]), Probe("real", x[1][4], x[1][5]),
                      Probe("decoy2", x[2], x[3])>>,
            sessions |-> 1, rcpts |-> 3, handshake |-> x[1][1]] :
             x \in {y \in firstTwo : do_fake2(adaptive, y[4], y[3], y[5])}
                   \X net.codes \X net.times}
    IN  blocked \cup short \cup long

\* outlook_single_probe: (code, latency) of its possible runs, each on a
\* session of its own; (None, None) when connect raises
outlook_single_probe(timeset) ==
    (IF FALSE \in net.connects
     THEN {[code |-> None, t |-> None, connected |-> FALSE]} ELSE {})
    \cup
    (IF TRUE \in net.connects
     THEN {[code |-> c, t |-> tm, connected |-> TRUE] : c \in net.codes, tm \in timeset}
     ELSE {})

\* lines 316-328: three single probes; the handshake recorded is that of the
\* three sessions (ehlo/starttls failures are passed over, no MAIL FROM is sent)
OutlookProbes ==
    {[seq |-> <<Probe("decoy1", x[1].code, x[1].t), Probe("real", x[2].code, x[2].t),
                Probe("decoy2", x[3].code, x[3].t)>>,
      sessions |-> 3,
      rcpts |-> Cardinality({k \in 1..3 : x[k].connected}),
      handshake |-> x[4]] :
        x \in outlook_single_probe(net.decoyTimes) \X outlook_single_probe(net.times)
              \X outlook_single_probe(net.times) \X (net.handshakes \ {"mail_failed"})}

\* lines 315-332: the probe path by provider
ProbeRuns(provider) ==
    IF provider = "microsoft365" THEN OutlookProbes ELSE smtp_multi_probe(TRUE)

\* lines 334-363: copy the probes into the result, analyse, score
ScoreResult(result, seq) ==
    LET r1 == IF Len(seq) >= 1
              THEN [result EXCEPT !.Fake1_Code = seq[1].code, !.Fake1_Time = seq[1].t]
              ELSE result
        r2 == IF Len(seq) >= 2
              THEN [r1 EXCEPT !.Real_Code = seq[2].code, !.Real_Time = seq[2].t]
              ELSE r1
        r3 == IF Len(seq) >= 3
              THEN [r2 EXCEPT !.Fake2_Code = seq[3].code, !.Fake2_Time = seq[3].t]
              ELSE r2
        a == analyze_timing(seq)
        scored == behavioral_score(r3.Fake1_Time, r3.Fake2_Time, r3.Real_Time,
                                   a.conf, a.entropy, r3.Provider, r3.Real_Code)
    IN  [r3 EXCEPT !.Timing_Delta = a.delta, !.Entropy = a.entropy,
                   !.Avg_Latency = a.avg, !.Confidence = a.conf,
                   !.Pattern = scored.Pattern, !.Score = scored.Score,
                   !.Status = scored.Status, !.Deliverable = scored.Deliverable,
                   !.Reason = "pattern_analysis"]

\* lines 313-363: probe the first exchanger and score what came back
VerifyProbe(t) ==
    /\ tasks[t].pc = "probe"
    /\ LET T == tasks[t]
       IN  \E run \in ProbeRuns(T.result.Provider) :
             SetTask(t, [T EXCEPT !.pc = "ret",
                                  !.result = ScoreResult(T.result, run.seq),
                                  !.h.sessions = run.sessions,
                                  !.h.rcpts = run.rcpts,
                                  !.h.handshake = run.handshake,
                                  !.h.seq = run.seq])
    /\ UNCHANGED <<now, store, emails, valid, results, output, max_workers, phase,
                   lastSet, net, scIn, scOut>>

\* the tasks inside verify_email
Running == {t \in TaskIds : tasks[t].pc \in {"start", "get", "check", "query", "set", "probe"}}

\* time passes.  The clock of the model moves in steps of half an hour and a
\* call lasts seconds (DNS_LIFETIME, SMTP_TIMEOUT), so it moves between calls.
Tick ==
    /\ now < MaxTicks * TickLen
    /\ Running = {}
    /\ now' = now + TickLen
    /\ UNCHANGED <<store, tasks, emails, valid, results, output, max_workers, phase,
                   lastSet, net, scIn, scOut>>

(***************************************************************************)
(* Single calls of verify_email, one after the other.                      *)
(***************************************************************************)
NoScoring == [fake1_t |-> None, fake2_t |-> None, real_t |-> None,
              confidence |-> 0, entropy |-> 1, provider |-> NoneStr,
              real_code |-> None]
NoScored == [Pattern |-> NoneStr, Score |-> 0, Status |-> NoneStr,
             Deliverable |-> FALSE]
EmptyDict == [x \in {} |-> None]

InitProgram(n) ==
    /\ now = 0
    /\ store = EmptyDict
    /\ lastSet = EmptyDict
    /\ tasks = [t \in TaskIds |-> IdleTask]
    /\ emails = <<>>
    /\ valid = <<>>
    /\ results = <<>>
    /\ output = <<>>
    /\ max_workers = 1
    /\ phase = "idle"
    /\ net = n

Init == InitProgram(RichNet) /\ scIn = NoScoring /\ scOut = NoScored

\* a caller invokes verify_email(arg)
Call ==
    /\ phase = "idle"
    /\ tasks[1].pc \in {"none", "ret"}
    /\ \E arg \in net.addrs : SetTask(1, NewTask(arg, "start"))
    /\ UNCHANGED <<now, store, emails, valid, results, output, max_workers, phase,
                   lastSet, net, scIn, scOut>>

Next ==
    \/ Call
    \/ VerifySyntax(1)
    \/ CacheGet(1)
    \/ CacheCheck(1)
    \/ DnsQuery(1)
    \/ CacheSet(1)
    \/ VerifyProbe(1)
    \/ Tick

Spec == Init /\ [][Next]_vars

(***************************************************************************)
(* verify_bulk_emails: the filter, the thread pool, the collection of the  *)
(* futures as they complete, and the reordering.                           *)
(***************************************************************************)
\* the lists a caller may pass
RECURSIVE ListsUpTo(_, _)
ListsUpTo(S, n) ==
    IF n = 0 THEN {<<>>}
    ELSE LET shorter == ListsUpTo(S, n - 1)
         IN  shorter \cup {Append(l, e) : l \in {x \in shorter : Len(x) = n - 1}, e \in S}

\* line 369: [normalize_email(e) for e in emails if e and EMAIL_REGEX.match(e)]
RECURSIVE FilterValid(_)
FilterValid(es) ==
    IF es = <<>> THEN <<>>
    ELSE IF Head(es) # <<>> /\ EMAIL_REGEX_match(Head(es))
         THEN <<normalize_email(Head(es))>> \o FilterValid(Tail(es))
         ELSE FilterValid(Tail(es))

\* lines 368-375: filter, return [] when nothing is left, else submit one
\* future per address
BulkCallIn(phases) ==
    /\ phase \in phases
    /\ \E es \in ListsUpTo(net.addrs, MaxBatch), mw \in 1..MaxWorkers :
         LET kept == FilterValid(es)
         IN  /\ emails' = es
             /\ valid' = kept
             /\ max_workers' = mw
             /\ results' = <<>>
             /\ IF kept = <<>>
                THEN /\ output' = <<>>
                     /\ phase' = "done"
                     /\ tasks' = [t \in TaskIds |-> IdleTask]
                ELSE /\ output' = <<>>
                     /\ phase' = "bulk"
                     /\ tasks' = [t \in TaskIds |->
                                    IF t <= Len(kept) THEN NewTask(kept[t], "queued")
                                    ELSE IdleTask]
    /\ UNCHANGED <<now, store, lastSet, net, scIn, scOut>>

\* a call of verify_bulk_emails, the first of the process or a later one
BulkCall == BulkCallIn({"idle", "done"})

\* the first call of verify_bulk_emails of a process
FirstBulkCall == BulkCallIn({"idle"})

\* ThreadPoolExecutor: a free worker takes the oldest queued future
PoolStart(t) ==
    /\ phase = "bulk"
    /\ tasks[t].pc = "queued"
    /\ Cardinality(Running) < max_workers
    /\ \A u \in TaskIds : u < t => tasks[u].pc # "queued"
    /\ SetTask(t, [tasks[t] EXCEPT !.pc = "start"])
    /\ UNCHANGED <<now, store, emails, valid, results, output, max_workers, phase,
                   lastSet, net, scIn, scOut>>

\* an exception escapes verify_email after the MX lookup (nothing in lines
\* 313-363 raises on the values modelled; this is the fault the handler of
\* lines 379-386 is written for)
WorkerRaise(t) ==
    /\ phase = "bulk"
    /\ tasks[t].pc = "probe"
    /\ SetTask(t, [tasks[t] EXCEPT !.pc = "raised"])
    /\ UNCHANGED <<now, store, emails, valid, results, output, max_workers, phase,
                   lastSet, net, scIn, scOut>>

\* mutant of ErrorResult: the record lacks the address it is about
ErrorResultNoEmail(email) ==
    [email |-> <<>>, Status |-> "error", Deliverable |-> FALSE, Score |-> 0,
     Reason |-> "exception"]

\* lines 380-386
ErrorResult(email) ==
    [email |-> email, Status |-> "error", Deliverable |-> FALSE, Score |-> 0,
     Reason |-> "exception"]

\* lines 376-386: the result of a completed future, or the error record
Collected(t) ==
    IF tasks[t].pc = "raised" THEN ErrorResult(valid[t]) ELSE tasks[t].result

\* lines 376-386: as_completed yields a finished future
BulkCollect(t) ==
    /\ phase = "bulk"
    /\ tasks[t].pc \in {"ret", "raised"}
    /\ results' = Append(results, Collected(t))
    /\ SetTask(t, [tasks[t] EXCEPT !.pc = "collected"])
    /\ UNCHANGED <<now, store, emails, valid, output, max_workers, phase, lastSet,
                   net, scIn, scOut>>

\* line 388: {r.get("email"): r for r in results}, the last one of an email wins
RECURSIVE EmailToResult(_)
EmailToResult(rs) ==
    IF rs = <<>> THEN EmptyDict
    ELSE LET r == rs[Len(rs)]
             before == EmailToResult(SubSeq(rs, 1, Len(rs) - 1))
         IN  Put(before, r.email, r)

\* line 389: [email_to_result.get(e) for e in emails if e in email_to_result]
RECURSIVE Reordered(_, _)
Reordered(es, d) ==
    IF es = <<>> THEN <<>>
    ELSE IF Head(es) \in DOMAIN d
         THEN <<d[Head(es)]>> \o Reordered(Tail(es), d)
         ELSE Reordered(Tail(es), d)

\* lines 376, 388-389: every future has completed; reorder and return
BulkReturn ==
    /\ phase = "bulk"
    /\ \A t \in 1..Len(valid) : tasks[t].pc = "collected"
    /\ output' = Reordered(valid, EmailToResult(results))
    /\ phase' = "done"
    /\ UNCHANGED <<now, store, tasks, emails, valid, results, max_workers, lastSet,
                   net, scIn, scOut>>

InitBulk == InitProgram(LeanNet) /\ scIn = NoScoring /\ scOut = NoScored

TaskStep(t) ==
    \/ PoolStart(t)
    \/ VerifySyntax(t)
    \/ CacheGet(t)
    \/ CacheCheck(t)
    \/ DnsQuery(t)
    \/ CacheSet(t)
    \/ VerifyProbe(t)
    \/ WorkerRaise(t)
    \/ BulkCollect(t)

NextBulk ==
    \/ BulkCall
    \/ \E t \in TaskIds : TaskStep(t)
    \/ BulkReturn
    \/ Tick

SpecBulk == InitBulk /\ [][NextBulk]_vars

\* one bulk call
NextBatch ==
    \/ FirstBulkCall
    \/ \E t \in TaskIds : TaskStep(t)
    \/ BulkReturn

SpecBatch == InitBulk /\ [][NextBatch]_vars

\* the threads of the pool run, and every network call has a timeout: a task
\* that can take a step eventually takes one, and the caller's loop returns
FairSpecBatch ==
    /\ SpecBatch
    /\ WF_vars(\E t \in TaskIds : TaskStep(t))
    /\ WF_vars(BulkReturn)

(***************************************************************************)
(* The scorer on its own: behavioral_score applied to arguments drawn from *)
(* bounded sets.                                                           *)
(***************************************************************************)
ScoreTimes == {None, 0, 10, 100}
ScoreConfidences == {0, 6, 18, 30}
ScoreEntropies == {1, 2, 3}
Providers == {"microsoft365", "google", "proofpoint", "mimecast", "barracuda",
              "unknown"}
ScoreCodes == {None, 250, 450, 550}

ScoreInputs ==
    [fake1_t : ScoreTimes, fake2_t : ScoreTimes, real_t : ScoreTimes,
     confidence : ScoreConfidences, entropy : ScoreEntropies,
     provider : Providers, real_code : ScoreCodes]

InitScore ==
    /\ InitProgram(RichNet)
    /\ scIn \in ScoreInputs
    /\ scOut = NoScored

ScoreApply ==
    /\ scOut = NoScored
    /\ scOut' = behavioral_score(scIn.fake1_t, scIn.fake2_t, scIn.real_t,
                                 scIn.confidence, scIn.entropy, scIn.provider,
                                 scIn.real_code)
    /\ UNCHANGED <<now, store, tasks, emails, valid, results, output, max_workers,
                   phase, lastSet, net, scIn>>

NextScore == ScoreApply

SpecScore == InitScore /\ [][NextScore]_vars

(***************************************************************************)
(* Replay: one probe sequence and provider, analysed and scored again and  *)
(* again (lines 334-360) while the clock moves between the replays.        *)
(***************************************************************************)
ReplayCodes == {None, 250, 550}
ReplayTimes == {None, 10, 100}
ReplayProbes(addr) == {Probe(addr, c, t) : c \in ReplayCodes, t \in ReplayTimes}

\* what smtp_multi_probe or the three single probes can hand to the analysis
ReplaySeqs ==
    {<<Probe("__connect__", None, None)>>}
    \cup {<<p1, p2>> : p1 \in ReplayProbes("decoy1"), p2 \in ReplayProbes("real")}
    \cup {<<p1, p2, p3>> : p1 \in ReplayProbes("decoy1"), p2 \in ReplayProbes("real"),
                           p3 \in ReplayProbes("decoy2")}

InitReplay ==
    /\ InitProgram(RichNet)
    /\ scIn \in [seq : ReplaySeqs, provider : Providers]
    /\ scOut = NoScored

\* lines 334-360 on the sequence of scIn; every outcome is kept in `results`
ReplayScore ==
    /\ phase = "idle"
    /\ Len(results) < MaxReplays
    /\ LET r == ScoreResult([InitialResult(AddrA) EXCEPT !.Provider = scIn.provider],
                            scIn.seq)
       IN  /\ results' = Append(results, r)
           /\ scOut' = [Pattern |-> r.Pattern, Score |-> r.Score, Status |-> r.Status,
                        Deliverable |-> r.Deliverable]
    /\ UNCHANGED <<now, store, tasks, emails, valid, output, max_workers, phase,
                   lastSet, net, scIn>>

NextReplay ==
    \/ ReplayScore
    \/ Tick

SpecReplay == InitReplay /\ [][NextReplay]_vars

(***************************************************************************)
(* Properties.                                                             *)
(***************************************************************************)
Returned(t) == tasks[t].pc = "ret"
SpecStatuses == {"deliverable", "risky", "undeliverable", "invalid"}

\* C1: a call of verify_email whose (stripped) address fails the syntax check
\* returns status invalid, reason bad_syntax and score 0, having issued no DNS
\* query, touched the MX cache not at all, opened no SMTP session and sent no
\* RCPT.
C1_BadSyntaxNoNetwork ==
    \A t \in TaskIds :
      (Returned(t) /\ ~EMAIL_REGEX_match(normalize_email(tasks[t].arg))) =>
        /\ tasks[t].result.Status = "invalid"
        /\ tasks[t].result.Reason = "bad_syntax"
        /\ tasks[t].result.Score = 0
        /\ tasks[t].h.dns = 0
        /\ tasks[t].h.cacheOps = 0
        /\ tasks[t].h.sessions = 0
        /\ tasks[t].h.rcpts = 0

C1_Witness ==
    /\ Returned(1)
    /\ tasks[1].arg = AddrBad
    /\ tasks[1].result.Reason = "bad_syntax"
    /\ DOMAIN store # {}

\* C2: when verify_bulk_emails has returned, the output has one result per
\* input address, result i is about input i, and a malformed input is
\* reported at its position as invalid/bad_syntax.
C2_OneResultPerInput ==
    phase = "done" =>
      /\ Len(output) = Len(emails)
      /\ \A i \in 1..Len(emails) :
           /\ output[i].email = normalize_email(emails[i])
           /\ ~EMAIL_REGEX_match(emails[i]) =>
                (output[i].Status = "invalid" /\ output[i].Reason = "bad_syntax")

\* C3: a resolve_mx call made after a set for its domain completed, and
\* deciding while that set is within its TTL, issues no DNS query; and a call
\* made after the TTL of the last completed set has elapsed is not served
\* from the cache.
C3_CacheWithinTtl ==
    \A t \in TaskIds :
      /\ tasks[t].pc = "query" => ~tasks[t].h.fresh
      /\ tasks[t].h.hit => ~tasks[t].h.stale

\* C4: a verification that reached the probe stage opened exactly one SMTP
\* session.
C4_OneSession ==
    \A t \in TaskIds :
      (Returned(t) /\ tasks[t].h.seq # <<>>) => tasks[t].h.sessions = 1

Established(seq) ==
    /\ seq # <<>>
    /\ \A k \in 1..Len(seq) : seq[k].addr # "__connect__" /\ seq[k].t # None

\* C5: with the session established, the probes are decoy1, real and then
\* possibly decoy2, and decoy2 is missing exactly when the real probe's code
\* is an accept/defer code and its time differs from decoy 1's by more than
\* the threshold.
C5_ProbeSequence ==
    \A t \in TaskIds :
      (Returned(t) /\ Established(tasks[t].h.seq)) =>
        LET seq == tasks[t].h.seq IN
        /\ Len(seq) \in {2, 3}
        /\ seq[1].addr = "decoy1"
        /\ seq[2].addr = "real"
        /\ Len(seq) = 3 => seq[3].addr = "decoy2"
        /\ Len(seq) = 2 <=>
             (seq[2].code \in AcceptCodes /\ Abs(seq[2].t - seq[1].t) > ProbeThreshold)

\* the MX lookup of the call found no exchanger: a query was made and the
\* call returned without a list
LookupFailed(t) == Returned(t) /\ tasks[t].h.dns > 0 /\ tasks[t].result.MX = <<>>

\* C6: when the domain has no resolvable exchanger the status is
\* undeliverable and the reason is no_mx, domain_not_exist or dns_timeout.
C6_DnsFailureReasons ==
    \A t \in TaskIds :
      LookupFailed(t) =>
        /\ tasks[t].result.Status = "undeliverable"
        /\ tasks[t].result.Reason \in {"no_mx", "domain_not_exist", "dns_timeout"}

Scored == scOut # NoScored

\* C7: for a provider of the generic-accept family and a real code of 550,
\* the score is 10 and the status invalid (or undeliverable), whatever the
\* timings, the confidence and the entropy.
C7_Override550 ==
    (Scored /\ scIn.provider \in {"microsoft365", "proofpoint", "mimecast", "barracuda"}
            /\ scIn.real_code = 550) =>
      /\ scOut.Score = 1000
      /\ scOut.Status \in {"invalid", "undeliverable"}
      /\ ~scOut.Deliverable

\* timing alone would have scored this one high
C7_Witness ==
    /\ Scored
    /\ scIn.provider = "microsoft365"
    /\ scIn.real_code = 550
    /\ scIn.fake1_t = 0 /\ scIn.fake2_t = 0 /\ scIn.real_t = 100
    /\ scIn.confidence = 30 /\ scIn.entropy = 3
    /\ scOut.Pattern = "smtp_550_invalid"

\* C8: the score is a whole number from 0 to 99 and the status is
\* deliverable from 80, risky from 55, undeliverable below.
C8_IntegerScoreAndStatus ==
    Scored =>
      /\ scOut.Score % 100 = 0
      /\ 0 <= scOut.Score /\ scOut.Score <= 9900
      /\ scOut.Status = IF scOut.Score >= 8000 THEN "deliverable"
                        ELSE IF scOut.Score >= 5500 THEN "risky"
                        ELSE "undeliverable"

\* the task's verification failed: it raised, its DNS lookup failed, or its
\* session could not be opened
TaskFailed(t) ==
    \/ tasks[t].result.MX = <<>>
    \/ tasks[t].h.sessions > 0 /\ ~Established(tasks[t].h.seq)

NoOtherTaskFor(t) == \A u \in 1..Len(valid) : u # t => valid[u] # valid[t]

\* when the bulk call has returned: one result per well-formed input, in the
\* order of the inputs, each about its input; the address of a task that
\* raised has an error result, and an address whose lookup or connection
\* failed a result that is not deliverable
BulkAnswered ==
    phase = "done" =>
      /\ Len(output) = Cardinality({i \in 1..Len(emails) : EMAIL_REGEX_match(emails[i])})
      /\ \A i \in 1..Len(emails) :
           EMAIL_REGEX_match(emails[i]) =>
             \E j \in 1..Len(output) : output[j].email = normalize_email(emails[i])
      /\ \A t \in 1..Len(output) :
           /\ output[t].email = valid[t]
           /\ NoOtherTaskFor(t) =>
                /\ \E k \in 1..Len(results) :
                     results[k] = output[t]
                /\ output[t].Status = "error" <=> output[t].Reason = "exception"
                /\ (output[t].Status # "error" /\ TaskFailed(t)) =>
                     (~output[t].Deliverable /\ output[t].Status = "invalid")

\* how far a task is through its future
Rank(pc) ==
    CASE pc = "start" -> 1
      [] pc = "get" -> 2
      [] pc = "check" -> 3
      [] pc = "query" -> 4
      [] pc = "set" -> 5
      [] pc = "probe" -> 6
      [] pc \in {"ret", "raised"} -> 7
      [] pc = "collected" -> 8
      [] OTHER -> 0

BulkMeasure == SeqSum([t \in TaskIds |-> Rank(tasks[t].pc)])

\* while the call runs some step of it can be taken
BulkNotStuck ==
    phase = "bulk" => (ENABLED (\E t \in TaskIds : TaskStep(t)) \/ ENABLED BulkReturn)

\* every step of a running call brings it nearer to its return
BulkAdvances ==
    [][phase = "bulk" => (phase' = "done" \/ BulkMeasure' > BulkMeasure)]_vars

BulkTerminates == (phase = "bulk") ~> (phase = "done")

C10_StatusDomain ==
    \A t \in TaskIds : Returned(t) => tasks[t].result.Status \in SpecStatuses

Sentinel(seq) == seq = <<Probe("__connect__", None, None)>>

\* C12: a verification whose probe stage returned the connection-block
\* sentinel has status undeliverable, score 50 and reason smtp_policy.
C12_ConnectionBlock ==
    \A t \in TaskIds :
      (Returned(t) /\ Sentinel(tasks[t].h.seq)) =>
        /\ tasks[t].result.Status = "undeliverable"
        /\ tasks[t].result.Score = 5000
        /\ tasks[t].result.Reason = "smtp_policy"

\* C13: when HELO or MAIL FROM failed, the probe stage returned the sentinel
\* alone and sent no RCPT.
C13_HandshakeFailureBlocks ==
    \A t \in TaskIds :
      (Returned(t) /\ tasks[t].h.handshake \in {"helo_failed", "mail_failed"}) =>
        /\ Sentinel(tasks[t].h.seq)
        /\ tasks[t].h.rcpts = 0

\* C14: on an established session a probe without a status code (its RCPT
\* raised) has no elapsed time either, and the probes after it are still
\* made: there are at least two, and three when the real probe raised.
C14_ProbeExceptionNulls ==
    \A t \in TaskIds :
      (Returned(t) /\ tasks[t].h.seq # <<>> /\ ~Sentinel(tasks[t].h.seq)) =>
        LET seq == tasks[t].h.seq IN
        /\ \A k \in 1..Len(seq) : seq[k].code = None => seq[k].t = None
        /\ Len(seq) >= 2
        /\ seq[2].code = None => Len(seq) = 3

\* MX records in ascending order of preference
RECURSIVE ByPreference(_)
ByPreference(rs) ==
    IF rs = <<>> THEN <<>>
    ELSE LET k == CHOOSE i \in 1..Len(rs) :
                    /\ \A j \in 1..Len(rs) : rs[i].preference <= rs[j].preference
                    /\ \A j \in 1..(i - 1) : rs[j].preference > rs[i].preference
         IN  <<rs[k]>> \o ByPreference(SubSeq(rs, 1, k - 1) \o SubSeq(rs, k + 1, Len(rs)))

\* C15: the list resolve_mx makes of a DNS answer is the answer's hosts in
\* ascending order of preference; that list is what the cache holds after
\* the set and what verify_email reports, and the host probed is its first.
C15_MxSortedByPreference ==
    \A t \in TaskIds :
      tasks[t].h.answers # <<>> =>
        LET want == MxHosts(ByPreference(tasks[t].h.answers))
            domain == DomainOf(tasks[t].result.email)
        IN  /\ tasks[t].mx = want
            /\ tasks[t].pc \in {"probe", "ret"} =>
                 /\ tasks[t].result.MX = want
                 /\ domain \in DOMAIN store => store[domain].records = want

\* C16: a lookup that finds the entry at an age of the TTL or more (the TTL
\* exactly included) does not serve it, and leaves the store without it.
C16_ServedOnlyBelowTtl ==
    \A t \in TaskIds :
      (tasks[t].h.age # None /\ tasks[t].h.age >= MX_CACHE_TTL) =>
        /\ ~tasks[t].h.hit
        /\ tasks[t].pc = "query" =>
             DomainOf(tasks[t].result.email) \notin DOMAIN store

\* the composite of lines 211-217 for the arguments of scIn: what a provider
\* without rules scores on them
GenericComposite ==
    behavioral_score(scIn.fake1_t, scIn.fake2_t, scIn.real_t, scIn.confidence,
                     scIn.entropy, "unknown", scIn.real_code).Score

\* C17: for a provider outside the generic-accept family the final score is
\* at least the generic composite of the same signals.
C17_AdjustmentOnlyRaises ==
    (Scored /\ scIn.provider \notin GenericAccept) => scOut.Score >= GenericComposite

\* the rule that decided a scored result: the connection block, a provider
\* override on the real code, or the generic scoring
DecidedBy(t) ==
    IF Sentinel(tasks[t].h.seq) THEN "block"
    ELSE IF tasks[t].result.Provider \in GenericAccept
            /\ tasks[t].result.Real_Code \in AcceptCodes \cup {550}
    THEN "override"
    ELSE "generic"

\* C18: the reason of a scored result is pattern_analysis exactly when the
\* generic scoring decided it.
C18_ReasonNamesRule ==
    \A t \in TaskIds :
      (Returned(t) /\ tasks[t].h.seq # <<>>) =>
        (tasks[t].result.Reason = "pattern_analysis" <=> DecidedBy(t) = "generic")

\* C19: among the workers of one bulk call at most one gets a DNS answer for
\* a domain: the others are served from the cache (every address of the
\* model is of the one domain x.cc, and no time passes during the call).
C19_OneQueryPerDomain ==
    Cardinality({t \in TaskIds : tasks[t].h.answers # <<>>}) <= 1

\* C20: while the last completed set of a domain is within its TTL, the
\* store holds an entry for the domain.
C20_FreshEntryStays ==
    \A d \in DOMAIN lastSet : WithinTtl(lastSet[d], now) => d \in DOMAIN store

====
